---- MODULE Spec2Model ----
(***************************************************************************)
(* Model of storage/intent_resolver.go: the intent resolver of a replica.  *)
(*                                                                         *)
(* One caller runs processWriteIntentError (push, then resolve with        *)
(* wait=false, poison=true) or calls resolveIntents directly.  The local   *)
(* and the remote resolve batch run either on the caller or on a task of   *)
(* the stopper's pool; the stopper may start draining at any moment.       *)
(* The replica's write path (addWriteCmd), the cluster client (DB) and the *)
(* clock are collaborators outside the file; they are modelled by the      *)
(* narrow contract the resolver uses.                                       *)
(***************************************************************************)
EXTENDS Integers, Sequences, FiniteSets, Bags, TLC

VARIABLES
    pc,             \* position of the caller
    entry,          \* which operation the caller runs
    wiErr,          \* processWriteIntentError: the WriteIntentError argument
    h,              \* the request header
    readOnly,       \* roachpb.IsReadOnly(args)
    clock,          \* the store's clock
    pushIntents,    \* maybePushTransactions: intents to push
    resolveIntents, \* maybePushTransactions: intents good to resolve
    pushErr,        \* maybePushTransactions: returned error
    dbPush,         \* push batch in flight in the cluster client
    intents,        \* resolveIntents: the intents argument
    wait,           \* resolveIntents: the wait argument
    poison,         \* resolveIntents: the poison argument
    baLocal,        \* resolveIntents: requests of the local batch
    reqsRemote,     \* resolveIntents: requests of the remote batch
    wg,             \* resolveIntents: counter of the sync.WaitGroup
    lcmd,           \* the local batch's addWriteCmd call
    rcmd,           \* the remote batch's DB.Run call
    resErr,         \* resolveIntents: returned error
    raftLog,        \* batches the replica proposed to raft
    applied,        \* batches the replica applied
    dbResolve,      \* resolve batches sent through the cluster client
    draining,       \* the stopper is draining
    log,            \* warnings logged
    ret,            \* what the caller's operation returned
    brPush,         \* maybePushTransactions: br, the responses of the push batch
    calls,          \* calls of maybePushTransactions so far
    pushLog,        \* per call, the pushee and Now of each push request sent
    items,          \* processIntentsAsync: the intentsWithArg argument
    next,           \* processIntentsAsync: the item the loop submits next
    asyncNow,       \* processIntentsAsync: now, read once before the loop
    queued,         \* items whose task the pool took and has not started
    item,           \* the item of the running task
    track,          \* per item, what was done for it
    gcReqs          \* GC requests given to the replica's write path

vars == <<pc, entry, wiErr, h, readOnly, clock, pushIntents, resolveIntents,
          pushErr, dbPush, intents, wait, poison, baLocal, reqsRemote, wg,
          lcmd, rcmd, resErr, raftLog, applied, dbResolve, draining, log, ret,
          brPush, calls, pushLog, items, next, asyncNow, queued, item, track, gcReqs>>

asyncVars == <<items, next, asyncNow, queued, item, track, gcReqs>>
callVars == <<entry, wiErr, h, readOnly, calls, pushLog, asyncVars>>
pushVars == <<pushIntents, resolveIntents, pushErr, dbPush, brPush>>
buildVars == <<intents, wait, poison, baLocal, reqsRemote>>
replicaVars == <<raftLog, applied>>

----------------------------------------------------------------------------
(* Bounds of the model *)

MaxIntents == 2
\* How many times a request conflicts and is retried.
MaxCalls == 2
\* How many items one call of processIntentsAsync is given.
MaxItems == 2

----------------------------------------------------------------------------
(* roachpb data *)

PENDING == "PENDING"
COMMITTED == "COMMITTED"
ABORTED == "ABORTED"
TransactionStatus == {PENDING, COMMITTED, ABORTED}

PUSH_TIMESTAMP == "PUSH_TIMESTAMP"
PUSH_ABORT == "PUSH_ABORT"
PUSH_TOUCH == "PUSH_TOUCH"
PushTxnType == {PUSH_TIMESTAMP, PUSH_ABORT, PUSH_TOUCH}

\* A key is a positive number; the empty key (len(EndKey) == 0) is 0.
NoKey == 0

Point(k) == [Key |-> k, EndKey |-> NoKey]
Range(k, e) == [Key |-> k, EndKey |-> e]

\* The replica's range descriptor: the replica holds [StartKey, EndKey).
Desc == [StartKey |-> 2, EndKey |-> 4]

\* The transactions that left intents, and the key of each one's record.
PusheeIDs == {"T1", "T2"}
AnchorKey(id) == IF id = "T1" THEN 2 ELSE 7
TxnMeta(id, ts) == [ID |-> id, Key |-> AnchorKey(id), Timestamp |-> ts]

Intent(span, txn, status) == [Span |-> span, Txn |-> txn, Status |-> status]

\* h.Txn: a nil pointer, a transaction without an ID, a transaction with one.
NilID == "nil"
NilTxn == [Nil |-> TRUE, ID |-> NilID, Priority |-> "none"]
TxnNoID == [Nil |-> FALSE, ID |-> NilID, Priority |-> "of the transaction"]
TxnP1 == [Nil |-> FALSE, ID |-> "P1", Priority |-> "of the transaction"]
Header(txn, ts) == [Txn |-> txn, Timestamp |-> ts, UserPriority |-> "NORMAL"]

\* roachpb.MakePriority draws a priority for a user priority; the resolver only
\* passes it on.
MakePriority(userPriority) == "made from " \o userPriority

----------------------------------------------------------------------------
(* Collaborators outside the file *)

\* Replica.ContainsKey / Replica.ContainsKeyRange: full containment in the
\* replica's descriptor.
ContainsKey(desc, key) == desc.StartKey <= key /\ key < desc.EndKey
ContainsKeyRange(desc, start, end) == desc.StartKey <= start /\ end <= desc.EndKey

\* The pushee a successful PushTxn reports: PUSH_TIMESTAMP may leave the pushee
\* PENDING with its timestamp moved past PushTo; every push type may find or
\* leave the pushee COMMITTED or ABORTED.
PushOutcomes(req) ==
    LET final == {[TxnMeta |-> req.PusheeTxn, Status |-> s] : s \in {COMMITTED, ABORTED}}
        pushed == [TxnMeta |-> [req.PusheeTxn EXCEPT !.Timestamp = req.PushTo + 1],
                   Status |-> PENDING]
    IN  IF req.PushType = PUSH_TIMESTAMP THEN final \cup {pushed} ELSE final

\* The responses of a push batch: one per request, in request order.
BatchResponses(reqs) ==
    LET n == Len(reqs)
        all == UNION {PushOutcomes(reqs[i]) : i \in 1..n}
    IN  {br \in [1..n -> all] : \A i \in 1..n : br[i] \in PushOutcomes(reqs[i])}

----------------------------------------------------------------------------
(* maybePushTransactions, lines 117-184 *)

\* lines 127-135: the intents which need a push
PushNeeded(in) == SelectSeq(in, LAMBDA intent : intent.Status = PENDING)

\* lines 127-135: the intents which are good to resolve
GoodToResolve(in) == SelectSeq(in, LAMBDA intent : intent.Status # PENDING)

\* lines 118, 144-148: the pusher, synthesized when the header has none
PusherTxn(hdr) ==
    IF hdr.Txn.Nil
    THEN [Nil |-> FALSE, ID |-> NilID, Priority |-> MakePriority(hdr.UserPriority)]
    ELSE hdr.Txn

\* as PushTxnRequest, had Now been taken from the request header
PushTxnRequest_HeaderNow(intent, hdr, now, pushType) ==
    [Span      |-> Point(intent.Txn.Key),
     PusherTxn |-> PusherTxn(hdr),
     PusheeTxn |-> intent.Txn,
     PushTo    |-> hdr.Timestamp,
     Now       |-> hdr.Timestamp,
     PushType  |-> pushType]

\* lines 151-165
PushTxnRequest(intent, hdr, now, pushType) ==
    [Span      |-> Point(intent.Txn.Key),
     PusherTxn |-> PusherTxn(hdr),
     PusheeTxn |-> intent.Txn,
     PushTo    |-> hdr.Timestamp,
     Now       |-> now,
     PushType  |-> pushType]

\* as PushReqs, had the requests been added to the batch last intent first
PushReqs_Reversed(push, hdr, now, pushType) ==
    [i \in 1..Len(push) |-> PushTxnRequest(push[Len(push) + 1 - i], hdr, now, pushType)]

\* lines 149-166
PushReqs(push, hdr, now, pushType) ==
    [i \in 1..Len(push) |-> PushTxnRequest(push[i], hdr, now, pushType)]

\* lines 172-175: what is returned as resolvable when the batch failed
ResolvableOnError(resolve) == <<>>

\* as ResolvableOnSuccess, had the pushed intents replaced the slice
ResolvableOnSuccess_PushedOnly(resolve, push, br) ==
    [i \in 1..Len(push) |->
        [push[i] EXCEPT !.Txn = br[i].TxnMeta, !.Status = br[i].Status]]

\* as ResolvableOnSuccess, had the responses not been copied into the intents
ResolvableOnSuccess_Observed(resolve, push, br) == resolve \o push

\* lines 177-183: what is returned as resolvable when the batch succeeded
ResolvableOnSuccess(resolve, push, br) ==
    resolve \o [i \in 1..Len(push) |->
                  [push[i] EXCEPT !.Txn = br[i].TxnMeta, !.Status = br[i].Status]]

----------------------------------------------------------------------------
(* resolveIntents, lines 279-319: the requests and their batch *)

\* as ResolveArgs, had the range request dropped the flag
ResolveArgs_RangeUnpoisoned(intent, p) ==
    [Method    |-> IF intent.Span.EndKey = NoKey THEN "ResolveIntent"
                                                ELSE "ResolveIntentRange",
     Span      |-> intent.Span,
     IntentTxn |-> intent.Txn,
     Status    |-> intent.Status,
     Poison    |-> IF intent.Span.EndKey = NoKey THEN p ELSE FALSE]

\* lines 293-309
ResolveArgs(intent, p) ==
    [Method    |-> IF intent.Span.EndKey = NoKey THEN "ResolveIntent"
                                                ELSE "ResolveIntentRange",
     Span      |-> intent.Span,
     IntentTxn |-> intent.Txn,
     Status    |-> intent.Status,
     Poison    |-> p]

\* as IsLocal, had a range been located by its start key
IsLocal_ByStartKey(desc, intent) == ContainsKey(desc, intent.Span.Key)

\* lines 300, 308
IsLocal(desc, intent) ==
    IF intent.Span.EndKey = NoKey
    THEN ContainsKey(desc, intent.Span.Key)
    ELSE ContainsKeyRange(desc, intent.Span.Key, intent.Span.EndKey)

\* lines 288-319: baLocal.Requests
LocalRequests(desc, in, p) ==
    LET loc == SelectSeq(in, LAMBDA intent : IsLocal(desc, intent))
    IN  [i \in 1..Len(loc) |-> ResolveArgs(loc[i], p)]

\* lines 288-319: reqsRemote
RemoteRequests(desc, in, p) ==
    LET rem == SelectSeq(in, LAMBDA intent : ~IsLocal(desc, intent))
    IN  [i \in 1..Len(rem) |-> ResolveArgs(rem[i], p)]

----------------------------------------------------------------------------
(* State after construction: no call is running *)

NoCmd == [st |-> "none", by |-> "none", err |-> FALSE]
NoRet == [Kind |-> "none", Resolved |-> FALSE]

Init ==
    /\ pc = "idle"
    /\ entry = "none"
    /\ wiErr = [Intents |-> <<>>, Resolved |-> FALSE]
    /\ h = Header(NilTxn, 0)
    /\ readOnly = FALSE
    /\ clock = 10
    /\ pushIntents = <<>>
    /\ resolveIntents = <<>>
    /\ pushErr = "nil"
    /\ dbPush = <<>>
    /\ intents = <<>>
    /\ wait = FALSE
    /\ poison = FALSE
    /\ baLocal = <<>>
    /\ reqsRemote = <<>>
    /\ wg = 0
    /\ lcmd = NoCmd
    /\ rcmd = NoCmd
    /\ resErr = "nil"
    /\ raftLog = <<>>
    /\ applied = <<>>
    /\ dbResolve = <<>>
    /\ draining = FALSE
    /\ log = {}
    /\ ret = NoRet
    /\ brPush = <<>>
    /\ calls = 0
    /\ pushLog = <<>>
    /\ items = <<>>
    /\ next = 1
    /\ asyncNow = 0
    /\ queued = {}
    /\ item = 0
    /\ track = <<>>
    /\ gcReqs = <<>>

----------------------------------------------------------------------------
(* processWriteIntentError, lines 55-96, and maybePushTransactions *)

\* line 171: what the cluster client saw of a push batch
Sent(reqs) == {[ID |-> reqs[i].PusheeTxn.ID, Now |-> reqs[i].Now] : i \in DOMAIN reqs}

\* lines 55-63 and 117-171: the call, up to the dispatch of the push batch
ProcessWriteIntentError(in) ==
    /\ pc = "idle"
    /\ \E list \in in.Lists, res \in in.Resolved, txn \in in.HeaderTxns,
          ts \in in.Timestamps, ro \in in.ReadOnly, pushType \in in.PushTypes :
          /\ entry' = "processWriteIntentError"
          /\ wiErr' = [Intents |-> list, Resolved |-> res]
          /\ h' = Header(txn, ts)
          /\ readOnly' = ro
          /\ clock' = clock + 1
          /\ pushIntents' = PushNeeded(list)
          /\ resolveIntents' = GoodToResolve(list)
          /\ dbPush' = PushReqs(PushNeeded(list), Header(txn, ts), clock + 1, pushType)
    /\ pushLog' = Append(pushLog, Sent(dbPush'))
    /\ calls' = calls + 1
    /\ pc' = "push"
    /\ UNCHANGED <<pushErr, brPush, buildVars, wg, lcmd, rcmd, resErr, replicaVars,
                   dbResolve, draining, log, ret, asyncVars>>

\* The sender of the request retries it with the header it had and conflicts
\* again: lines 55-63 and 117-171 once more, with a new reading of the clock.
\* The earlier call has returned and its tasks have finished.
RetryProcessWriteIntentError(in) ==
    /\ pc = "done"
    /\ entry = "processWriteIntentError"
    /\ calls < MaxCalls
    /\ lcmd.st \in {"none", "returned"}
    /\ rcmd.st \in {"none", "returned"}
    /\ \E list \in in.Lists, pushType \in in.PushTypes :
          /\ wiErr' = [Intents |-> list, Resolved |-> wiErr.Resolved]
          /\ clock' = clock + 1
          /\ pushIntents' = PushNeeded(list)
          /\ resolveIntents' = GoodToResolve(list)
          /\ dbPush' = PushReqs(PushNeeded(list), h, clock + 1, pushType)
    /\ pushLog' = Append(pushLog, Sent(dbPush'))
    /\ calls' = calls + 1
    /\ pushErr' = "nil"
    /\ brPush' = <<>>
    /\ intents' = <<>> /\ wait' = FALSE /\ poison' = FALSE
    /\ baLocal' = <<>> /\ reqsRemote' = <<>>
    /\ wg' = 0 /\ lcmd' = NoCmd /\ rcmd' = NoCmd
    /\ resErr' = "nil"
    /\ ret' = NoRet
    /\ pc' = "push"
    /\ UNCHANGED <<entry, h, readOnly, replicaVars, dbResolve, draining, log, asyncVars>>

\* lines 171-175: the push batch failed
PushBatchFails ==
    /\ pc = "push"
    /\ pushErr' = "pushErr"
    /\ resolveIntents' = ResolvableOnError(resolveIntents)
    /\ dbPush' = <<>>
    /\ brPush' = <<>>
    /\ pc' = "pushed"
    /\ UNCHANGED <<callVars, clock, pushIntents, buildVars, wg, lcmd, rcmd, resErr,
                   replicaVars, dbResolve, draining, log, ret>>

\* lines 171, 177-183: the push batch succeeded
PushBatchSucceeds ==
    /\ pc = "push"
    /\ \E resp \in BatchResponses(dbPush) :
          /\ brPush' = resp
          /\ resolveIntents' = ResolvableOnSuccess(resolveIntents, pushIntents, resp)
    /\ pushErr' = "nil"
    /\ dbPush' = <<>>
    /\ pc' = "pushed"
    /\ UNCHANGED <<callVars, clock, pushIntents, buildVars, wg, lcmd, rcmd, resErr,
                   replicaVars, dbResolve, draining, log, ret>>

----------------------------------------------------------------------------
(* resolveIntents, lines 279-377 *)

\* lines 279-322: the requests are built and split
Enter(list, w, p) ==
    /\ intents' = list
    /\ wait' = w
    /\ poison' = p
    /\ baLocal' = LocalRequests(Desc, list, p)
    /\ reqsRemote' = RemoteRequests(Desc, list, p)
    /\ wg' = 0
    /\ pc' = "local"

\* line 64: processWriteIntentError resolves what the push returned
ResolveAfterPush ==
    /\ pc = "pushed"
    /\ entry = "processWriteIntentError"
    /\ Enter(resolveIntents, FALSE, TRUE)
    /\ UNCHANGED <<callVars, clock, pushVars, lcmd, rcmd, resErr, replicaVars,
                   dbResolve, draining, log, ret>>

\* a call of resolveIntents by another part of the store
ResolveIntents(in) ==
    /\ pc = "idle"
    /\ entry' = "resolveIntents"
    /\ \E list \in in.Lists, w \in in.Waits, p \in in.Poisons : Enter(list, w, p)
    /\ UNCHANGED <<wiErr, h, readOnly, calls, pushLog, asyncVars, clock, pushVars,
                   lcmd, rcmd, resErr, replicaVars, dbResolve, draining, log, ret>>

\* Stopper.RunAsyncTask: declines iff the stopper is draining
RunAsyncTask == ~draining

\* lines 323, 353: nothing is local
LocalEmpty ==
    /\ pc = "local"
    /\ baLocal = <<>>
    /\ pc' = "remote"
    /\ UNCHANGED <<callVars, clock, pushVars, buildVars, wg, lcmd, rcmd, resErr,
                   replicaVars, dbResolve, draining, log, ret>>

\* lines 336-346: wait, or the pool declined: the caller runs the action
\* as LocalSync, had the counter been raised by two
LocalSync_AddTwice ==
    /\ pc = "local"
    /\ baLocal # <<>>
    /\ wg' = wg + 2
    /\ wait \/ ~RunAsyncTask
    /\ lcmd' = [st |-> "submitted", by |-> "caller", err |-> FALSE]
    /\ pc' = "localSync"
    /\ UNCHANGED <<callVars, clock, pushVars, buildVars, rcmd, resErr,
                   replicaVars, dbResolve, draining, log, ret>>

LocalSync ==
    /\ pc = "local"
    /\ baLocal # <<>>
    /\ wg' = wg + 1
    /\ wait \/ ~RunAsyncTask
    /\ lcmd' = [st |-> "submitted", by |-> "caller", err |-> FALSE]
    /\ pc' = "localSync"
    /\ UNCHANGED <<callVars, clock, pushVars, buildVars, rcmd, resErr,
                   replicaVars, dbResolve, draining, log, ret>>

\* as LocalAsync, without wg.Add(1)
LocalAsync_NoAdd ==
    /\ pc = "local"
    /\ baLocal # <<>>
    /\ ~wait /\ RunAsyncTask
    /\ lcmd' = [st |-> "queued", by |-> "task", err |-> FALSE]
    /\ pc' = "remote"
    /\ UNCHANGED <<callVars, clock, pushVars, buildVars, wg, rcmd, resErr,
                   replicaVars, dbResolve, draining, log, ret>>

\* lines 336-341: the pool took the task; the caller goes on
LocalAsync ==
    /\ pc = "local"
    /\ baLocal # <<>>
    /\ wg' = wg + 1
    /\ ~wait /\ RunAsyncTask
    /\ lcmd' = [st |-> "queued", by |-> "task", err |-> FALSE]
    /\ pc' = "remote"
    /\ UNCHANGED <<callVars, clock, pushVars, buildVars, rcmd, resErr,
                   replicaVars, dbResolve, draining, log, ret>>

\* lines 337-338, 324-333: the task starts and calls addWriteCmd
LocalTaskRuns ==
    /\ lcmd.st = "queued"
    /\ lcmd' = [lcmd EXCEPT !.st = "submitted"]
    /\ UNCHANGED <<pc, callVars, clock, pushVars, buildVars, wg, rcmd, resErr,
                   replicaVars, dbResolve, draining, log, ret>>

\* as LocalLogged, had the task returned its error to nobody and logged nothing
LocalLogged_Silent(err) == log

\* lines 338-340: the task logs the error of its action
LocalLogged(err) ==
    IF lcmd.by = "task" /\ err THEN log \cup {"unable to resolve local intents"} ELSE log

\* Replica.addWriteCmd: the command is proposed to raft and the handle signalled
AddWriteCmdProposes ==
    /\ lcmd.st = "submitted"
    /\ raftLog' = Append(raftLog, baLocal)
    /\ wg' = wg - 1
    /\ lcmd' = [lcmd EXCEPT !.st = "proposed"]
    /\ UNCHANGED <<pc, callVars, clock, pushVars, buildVars, rcmd, resErr,
                   applied, dbResolve, draining, log, ret>>

\* Replica.addWriteCmd: the command is refused before it is proposed; the
\* handle is signalled on this return too
AddWriteCmdRefuses ==
    /\ lcmd.st = "submitted"
    /\ wg' = wg - 1
    /\ lcmd' = [lcmd EXCEPT !.st = "returned", !.err = TRUE]
    /\ log' = LocalLogged(TRUE)
    /\ UNCHANGED <<pc, callVars, clock, pushVars, buildVars, rcmd, resErr,
                   replicaVars, dbResolve, draining, ret>>

\* Replica.addWriteCmd: the proposed command is applied and the call returns
AddWriteCmdApplies ==
    /\ lcmd.st = "proposed"
    /\ applied' = Append(applied, baLocal)
    /\ lcmd' = [lcmd EXCEPT !.st = "returned"]
    /\ UNCHANGED <<pc, callVars, clock, pushVars, buildVars, wg, rcmd, resErr,
                   raftLog, dbResolve, draining, log, ret>>

\* Replica.addWriteCmd: the proposed command fails or its deadline passes
AddWriteCmdFails ==
    /\ lcmd.st = "proposed"
    /\ lcmd' = [lcmd EXCEPT !.st = "returned", !.err = TRUE]
    /\ log' = LocalLogged(TRUE)
    /\ UNCHANGED <<pc, callVars, clock, pushVars, buildVars, wg, rcmd, resErr,
                   replicaVars, dbResolve, draining, ret>>

\* lines 346-349: the caller's action returned
LocalSyncReturns ==
    /\ pc = "localSync"
    /\ lcmd.st = "returned"
    /\ IF lcmd.err
       THEN resErr' = "local" /\ pc' = "resolved"
       ELSE resErr' = resErr /\ pc' = "remote"
    /\ UNCHANGED <<callVars, clock, pushVars, buildVars, wg, lcmd, rcmd,
                   replicaVars, dbResolve, draining, log, ret>>

\* line 353: nothing is remote
RemoteEmpty ==
    /\ pc = "remote"
    /\ reqsRemote = <<>>
    /\ pc' = "wait"
    /\ UNCHANGED <<callVars, clock, pushVars, buildVars, wg, lcmd, rcmd, resErr,
                   replicaVars, dbResolve, draining, log, ret>>

\* as RemoteSync, had a declined task been given up
RemoteSync_Dropped ==
    /\ pc = "remote"
    /\ reqsRemote # <<>>
    /\ wait \/ ~RunAsyncTask
    /\ pc' = "wait"
    /\ UNCHANGED <<callVars, clock, pushVars, buildVars, wg, lcmd, rcmd, resErr,
                   replicaVars, dbResolve, draining, log, ret>>

\* lines 360-367: wait, or the pool declined: the caller runs the batch
RemoteSync ==
    /\ pc = "remote"
    /\ reqsRemote # <<>>
    /\ wait \/ ~RunAsyncTask
    /\ rcmd' = [st |-> "sent", by |-> "caller", err |-> FALSE]
    /\ dbResolve' = Append(dbResolve, reqsRemote)
    /\ pc' = "remoteSync"
    /\ UNCHANGED <<callVars, clock, pushVars, buildVars, wg, lcmd, resErr,
                   replicaVars, draining, log, ret>>

\* lines 360-364: the pool took the task; the caller goes on
RemoteAsync ==
    /\ pc = "remote"
    /\ reqsRemote # <<>>
    /\ ~wait /\ RunAsyncTask
    /\ rcmd' = [st |-> "queued", by |-> "task", err |-> FALSE]
    /\ pc' = "wait"
    /\ UNCHANGED <<callVars, clock, pushVars, buildVars, wg, lcmd, resErr,
                   replicaVars, dbResolve, draining, log, ret>>

\* lines 360-361, 356-358: the task starts and runs the batch
RemoteTaskRuns ==
    /\ rcmd.st = "queued"
    /\ rcmd' = [rcmd EXCEPT !.st = "sent"]
    /\ dbResolve' = Append(dbResolve, reqsRemote)
    /\ UNCHANGED <<pc, callVars, clock, pushVars, buildVars, wg, lcmd, resErr,
                   replicaVars, draining, log, ret>>

\* DB.Run responds; lines 361-363: the task logs the error of its action
DBRunReturns ==
    /\ rcmd.st = "sent"
    /\ \E err \in BOOLEAN :
          /\ rcmd' = [rcmd EXCEPT !.st = "returned", !.err = err]
          /\ log' = IF rcmd.by = "task" /\ err
                    THEN log \cup {"unable to resolve external intents"}
                    ELSE log
    /\ UNCHANGED <<pc, callVars, clock, pushVars, buildVars, wg, lcmd, resErr,
                   replicaVars, dbResolve, draining, ret>>

\* as RemoteSyncReturns, had the error been dropped
RemoteSyncReturns_Swallowed ==
    /\ pc = "remoteSync"
    /\ rcmd.st = "returned"
    /\ pc' = "wait"
    /\ UNCHANGED <<callVars, clock, pushVars, buildVars, wg, lcmd, rcmd, resErr,
                   replicaVars, dbResolve, draining, log, ret>>

\* lines 367-370: the caller's batch returned
RemoteSyncReturns ==
    /\ pc = "remoteSync"
    /\ rcmd.st = "returned"
    /\ IF rcmd.err
       THEN resErr' = "remote" /\ pc' = "resolved"
       ELSE resErr' = resErr /\ pc' = "wait"
    /\ UNCHANGED <<callVars, clock, pushVars, buildVars, wg, lcmd, rcmd,
                   replicaVars, dbResolve, draining, log, ret>>

\* as WaitLocalProposed, without wg.Wait()
WaitLocalProposed_NoWait ==
    /\ pc = "wait"
    /\ resErr' = "nil"
    /\ pc' = "resolved"
    /\ UNCHANGED <<callVars, clock, pushVars, buildVars, wg, lcmd, rcmd,
                   replicaVars, dbResolve, draining, log, ret>>

\* lines 375-376: wg.Wait() and the return without error
WaitLocalProposed ==
    /\ pc = "wait"
    /\ wg = 0
    /\ resErr' = "nil"
    /\ pc' = "resolved"
    /\ UNCHANGED <<callVars, clock, pushVars, buildVars, wg, lcmd, rcmd,
                   replicaVars, dbResolve, draining, log, ret>>

\* a direct call of resolveIntents returns its error to its caller
ResolveIntentsReturns ==
    /\ pc = "resolved"
    /\ entry = "resolveIntents"
    /\ ret' = [Kind |-> IF resErr = "nil" THEN "nil" ELSE "resolveErr", Resolved |-> FALSE]
    /\ pc' = "done"
    /\ UNCHANGED <<callVars, clock, pushVars, buildVars, wg, lcmd, rcmd, resErr,
                   replicaVars, dbResolve, draining, log>>

----------------------------------------------------------------------------
(* processWriteIntentError, lines 64-96: after resolveIntents *)

\* as ReturnedError, had a failed push always given the write-intent error
ReturnedError_AlwaysConflict(wi, hdr, ro, pErr) ==
    [Kind |-> "WriteIntentError", Resolved |-> IF pErr # "nil" THEN wi.Resolved ELSE TRUE]

\* lines 72-95: the error returned in place of the original
ReturnedError(wi, hdr, ro, pErr) ==
    IF pErr # "nil"
    THEN IF ~hdr.Txn.Nil /\ hdr.Txn.ID # NilID /\ ~ro
         THEN [Kind |-> "pushErr", Resolved |-> FALSE]
         ELSE [Kind |-> "WriteIntentError", Resolved |-> wi.Resolved]
    ELSE [Kind |-> "WriteIntentError", Resolved |-> TRUE]

\* as ProcessWriteIntentErrorReturns, had the error of resolveIntents been returned
ProcessWriteIntentErrorReturns_ResErr ==
    /\ pc = "resolved"
    /\ entry = "processWriteIntentError"
    /\ ret' = IF resErr # "nil"
              THEN [Kind |-> "resolveErr", Resolved |-> FALSE]
              ELSE ReturnedError(wiErr, h, readOnly, pushErr)
    /\ pc' = "done"
    /\ UNCHANGED <<callVars, clock, pushVars, buildVars, wg, lcmd, rcmd, resErr,
                   replicaVars, dbResolve, draining, log>>

\* lines 64-96
ProcessWriteIntentErrorReturns ==
    /\ pc = "resolved"
    /\ entry = "processWriteIntentError"
    /\ log' = IF resErr # "nil"
              THEN log \cup {"asynchronous resolveIntents failed"}
              ELSE log
    /\ ret' = ReturnedError(wiErr, h, readOnly, pushErr)
    /\ pc' = "done"
    /\ UNCHANGED <<callVars, clock, pushVars, buildVars, wg, lcmd, rcmd, resErr,
                   replicaVars, dbResolve, draining>>

----------------------------------------------------------------------------
(* processIntentsAsync, lines 191-268 *)

EndTransaction == "EndTransaction"
Scan == "Scan"

\* line 259: keys.TransactionKey
TransactionKey(key, id) == <<"txn record", key, id>>

\* lines 253-260: the GC request for the record of a transaction
GCRequest(desc, txn) ==
    [Method |-> "GC",
     Span   |-> [Key |-> desc.StartKey, EndKey |-> desc.EndKey],
     Keys   |-> <<TransactionKey(txn.Key, txn.ID)>>]

\* What is recorded of an item: its cloned args, what became of its task, and
\* the calls the task made.
NoTrack(args) ==
    [args |-> args, st |-> "none",
     pushCalls |-> 0, pushIn |-> <<>>, pushType |-> "none", pushTo |-> 0,
     resolveCalls |-> 0, resolveIn |-> <<>>, wait |-> FALSE, poison |-> FALSE,
     pushFailed |-> FALSE, resolveFailed |-> FALSE, gc |-> 0]

\* lines 199-204: the item variable of the loop, as a running closure reads it.
\* The variable is shared by the iterations, so a task reads the item the loop
\* has reached by then.
LoopItem == items[next - 1]

\* lines 191-197
ProcessIntentsAsync(in) ==
    /\ pc = "idle"
    /\ entry = "none"
    /\ entry' = "processIntentsAsync"
    /\ \E list \in in.Items :
          /\ items' = list
          /\ track' = [i \in DOMAIN list |-> NoTrack(list[i].args)]
          /\ IF list = <<>>
             THEN asyncNow' = asyncNow /\ clock' = clock
             ELSE asyncNow' = clock + 1 /\ clock' = clock + 1
    /\ next' = 1
    /\ UNCHANGED <<pc, wiErr, h, readOnly, calls, pushLog, queued, item, gcReqs,
                   pushVars, buildVars, wg, lcmd, rcmd, resErr, replicaVars,
                   dbResolve, draining, log, ret>>

\* lines 199-204: one iteration of the loop; what RunAsyncTask answers is not
\* looked at
SubmitItem ==
    /\ entry = "processIntentsAsync"
    /\ pc # "panic"
    /\ next <= Len(items)
    /\ IF RunAsyncTask
       THEN /\ queued' = queued \cup {next}
            /\ track' = [track EXCEPT ![next].st = "queued"]
       ELSE /\ queued' = queued
            /\ track' = [track EXCEPT ![next].st = "declined"]
    /\ next' = next + 1
    /\ UNCHANGED <<pc, entry, wiErr, h, readOnly, calls, pushLog, items, asyncNow,
                   item, gcReqs, clock, pushVars, buildVars, wg, lcmd, rcmd, resErr,
                   replicaVars, dbResolve, draining, log, ret>>

\* lines 204-213 and 117-171: a task starts and dispatches its push batch
TaskRuns ==
    /\ entry = "processIntentsAsync"
    /\ pc \in {"idle", "done"}
    /\ \E i \in queued :
          /\ queued' = queued \ {i}
          /\ item' = i
          /\ h' = Header(NilTxn, asyncNow)
          /\ clock' = clock + 1
          /\ pushIntents' = PushNeeded(LoopItem.intents)
          /\ resolveIntents' = GoodToResolve(LoopItem.intents)
          /\ dbPush' = PushReqs(PushNeeded(LoopItem.intents), Header(NilTxn, asyncNow),
                                clock + 1, PUSH_TOUCH)
          /\ track' = [track EXCEPT ![i].st = "running",
                                    ![i].pushCalls = @ + 1,
                                    ![i].pushIn = LoopItem.intents,
                                    ![i].pushType = PUSH_TOUCH,
                                    ![i].pushTo = asyncNow]
    /\ pushLog' = Append(pushLog, Sent(dbPush'))
    /\ calls' = calls + 1
    /\ pushErr' = "nil"
    /\ brPush' = <<>>
    /\ intents' = <<>> /\ wait' = FALSE /\ poison' = FALSE
    /\ baLocal' = <<>> /\ reqsRemote' = <<>>
    /\ wg' = 0 /\ lcmd' = NoCmd /\ rcmd' = NoCmd
    /\ resErr' = "nil"
    /\ pc' = "push"
    /\ UNCHANGED <<entry, wiErr, readOnly, items, next, asyncNow, gcReqs,
                   replicaVars, dbResolve, draining, log, ret>>

\* as ResolveAfterPushAsync, had the task resolved as a conflict does
ResolveAfterPushAsync_AsConflict ==
    /\ pc = "pushed"
    /\ entry = "processIntentsAsync"
    /\ Enter(resolveIntents, TRUE, TRUE)
    /\ track' = [track EXCEPT ![item].resolveCalls = @ + 1,
                              ![item].resolveIn = resolveIntents,
                              ![item].wait = TRUE,
                              ![item].poison = TRUE,
                              ![item].pushFailed = (pushErr # "nil")]
    /\ UNCHANGED <<entry, wiErr, h, readOnly, calls, pushLog, items, next, asyncNow,
                   queued, item, gcReqs, clock, pushVars, lcmd, rcmd, resErr,
                   replicaVars, dbResolve, draining, log, ret>>

\* line 214: the task resolves what the push returned, also after a push error
ResolveAfterPushAsync ==
    /\ pc = "pushed"
    /\ entry = "processIntentsAsync"
    /\ Enter(resolveIntents, TRUE, FALSE)
    /\ track' = [track EXCEPT ![item].resolveCalls = @ + 1,
                              ![item].resolveIn = resolveIntents,
                              ![item].wait = TRUE,
                              ![item].poison = FALSE,
                              ![item].pushFailed = (pushErr # "nil")]
    /\ UNCHANGED <<entry, wiErr, h, readOnly, calls, pushLog, items, next, asyncNow,
                   queued, item, gcReqs, clock, pushVars, lcmd, rcmd, resErr,
                   replicaVars, dbResolve, draining, log, ret>>

\* lines 214-217: the resolve failed; logged, and the task ends
AsyncResolveFailed ==
    /\ pc = "resolved"
    /\ entry = "processIntentsAsync"
    /\ resErr # "nil"
    /\ log' = log \cup {"failed to resolve intents"}
    /\ track' = [track EXCEPT ![item].st = "done", ![item].resolveFailed = TRUE]
    /\ pc' = "done"
    /\ UNCHANGED <<entry, wiErr, h, readOnly, calls, pushLog, items, next, asyncNow,
                   queued, item, gcReqs, clock, pushVars, buildVars, wg, lcmd, rcmd,
                   resErr, replicaVars, dbResolve, draining, ret>>

\* lines 218-221: the push had failed; logged, and the task ends
AsyncPushFailed ==
    /\ pc = "resolved"
    /\ entry = "processIntentsAsync"
    /\ resErr = "nil"
    /\ pushErr # "nil"
    /\ log' = log \cup {"failed to push during intent resolution"}
    /\ track' = [track EXCEPT ![item].st = "done"]
    /\ pc' = "done"
    /\ UNCHANGED <<entry, wiErr, h, readOnly, calls, pushLog, items, next, asyncNow,
                   queued, item, gcReqs, clock, pushVars, buildVars, wg, lcmd, rcmd,
                   resErr, replicaVars, dbResolve, draining, ret>>

\* line 250: the args of the item are not an EndTransaction; the task ends
AsyncNoGC ==
    /\ pc = "resolved"
    /\ entry = "processIntentsAsync"
    /\ resErr = "nil"
    /\ pushErr = "nil"
    /\ track[item].args # EndTransaction
    /\ track' = [track EXCEPT ![item].st = "done"]
    /\ pc' = "done"
    /\ UNCHANGED <<entry, wiErr, h, readOnly, calls, pushLog, items, next, asyncNow,
                   queued, item, gcReqs, clock, pushVars, buildVars, wg, lcmd, rcmd,
                   resErr, replicaVars, dbResolve, draining, log, ret>>

\* lines 250-252: item.intents[0] of an item without intents; the index is out
\* of range and the process panics
AsyncGCPanics ==
    /\ pc = "resolved"
    /\ entry = "processIntentsAsync"
    /\ resErr = "nil"
    /\ pushErr = "nil"
    /\ track[item].args = EndTransaction
    /\ LoopItem.intents = <<>>
    /\ track' = [track EXCEPT ![item].st = "panic"]
    /\ pc' = "panic"
    /\ UNCHANGED <<entry, wiErr, h, readOnly, calls, pushLog, items, next, asyncNow,
                   queued, item, gcReqs, clock, pushVars, buildVars, wg, lcmd, rcmd,
                   resErr, replicaVars, dbResolve, draining, log, ret>>

\* lines 250-261: the GC request is given to the replica's write path
AsyncGC ==
    /\ pc = "resolved"
    /\ entry = "processIntentsAsync"
    /\ resErr = "nil"
    /\ pushErr = "nil"
    /\ track[item].args = EndTransaction
    /\ LoopItem.intents # <<>>
    /\ gcReqs' = Append(gcReqs, GCRequest(Desc, LoopItem.intents[1].Txn))
    /\ track' = [track EXCEPT ![item].gc = @ + 1]
    /\ pc' = "gc"
    /\ UNCHANGED <<entry, wiErr, h, readOnly, calls, pushLog, items, next, asyncNow,
                   queued, item, clock, pushVars, buildVars, wg, lcmd, rcmd,
                   resErr, replicaVars, dbResolve, draining, log, ret>>

\* lines 261-264: the write path returns; an error is logged
GCReturns ==
    /\ pc = "gc"
    /\ entry = "processIntentsAsync"
    /\ \E err \in BOOLEAN :
          /\ log' = IF err THEN log \cup {"could not GC completed transaction"} ELSE log
          /\ raftLog' = IF err THEN raftLog ELSE Append(raftLog, <<gcReqs[Len(gcReqs)]>>)
          /\ applied' = IF err THEN applied ELSE Append(applied, <<gcReqs[Len(gcReqs)]>>)
    /\ track' = [track EXCEPT ![item].st = "done"]
    /\ pc' = "done"
    /\ UNCHANGED <<entry, wiErr, h, readOnly, calls, pushLog, items, next, asyncNow,
                   queued, item, gcReqs, clock, pushVars, buildVars, wg, lcmd, rcmd,
                   resErr, dbResolve, draining, ret>>

----------------------------------------------------------------------------
(* The stopper *)

\* Stopper.Stop: the pool starts draining; running tasks go on
Stop ==
    /\ ~draining
    /\ draining' = TRUE
    /\ UNCHANGED <<pc, callVars, clock, pushVars, buildVars, wg, lcmd, rcmd, resErr,
                   replicaVars, dbResolve, log, ret>>

----------------------------------------------------------------------------
(* The inputs of the calls *)

SeqsUpTo(S, n) == UNION {[1..k -> S] : k \in 0..n}

\* Conflicts on and off the replica, pending and finalized.
FewIntents ==
    {Intent(Point(2), TxnMeta("T1", 0), PENDING),
     Intent(Range(3, 5), TxnMeta("T2", 0), PENDING),
     Intent(Point(3), TxnMeta("T1", 0), COMMITTED),
     Intent(Point(4), TxnMeta("T2", 0), ABORTED)}

\* Every span kind (a key inside, the end key, the whole range, a range that
\* leaves the replica) for every transaction and status.
ManySpans == {Point(2), Point(4), Range(2, 4), Range(3, 5)}
ManyIntents ==
    {Intent(sp, TxnMeta(id, 0), st) :
        sp \in ManySpans, id \in PusheeIDs, st \in TransactionStatus}

Calls ==
    [Lists      |-> SeqsUpTo(FewIntents, MaxIntents),
     Resolved   |-> BOOLEAN,
     HeaderTxns |-> {NilTxn, TxnNoID, TxnP1},
     Timestamps |-> {1},
     ReadOnly   |-> BOOLEAN,
     PushTypes  |-> PushTxnType,
     Waits      |-> BOOLEAN,
     Poisons    |-> BOOLEAN]

WideCalls ==
    [Lists      |-> SeqsUpTo(ManyIntents, MaxIntents),
     Resolved   |-> {FALSE},
     HeaderTxns |-> {NilTxn, TxnP1},
     Timestamps |-> {1},
     ReadOnly   |-> {FALSE},
     PushTypes  |-> PushTxnType,
     Waits      |-> {TRUE},
     Poisons    |-> BOOLEAN]

----------------------------------------------------------------------------
(* The resolver with its tasks *)

Next ==
    \/ ProcessWriteIntentError(Calls)
    \/ PushBatchFails
    \/ PushBatchSucceeds
    \/ ResolveAfterPush
    \/ ResolveIntents(Calls)
    \/ LocalEmpty
    \/ LocalSync
    \/ LocalAsync
    \/ LocalTaskRuns
    \/ AddWriteCmdProposes
    \/ AddWriteCmdRefuses
    \/ AddWriteCmdApplies
    \/ AddWriteCmdFails
    \/ LocalSyncReturns
    \/ RemoteEmpty
    \/ RemoteSync
    \/ RemoteAsync
    \/ RemoteTaskRuns
    \/ DBRunReturns
    \/ RemoteSyncReturns
    \/ WaitLocalProposed
    \/ ResolveIntentsReturns
    \/ ProcessWriteIntentErrorReturns
    \/ Stop

Spec == Init /\ [][Next]_vars

(* The resolver with a fair pool, a replica and a cluster client which   *)
(* answer, and a caller which goes on: the goroutine of the caller, the   *)
(* tasks the pool accepted, the write path and the client each take the   *)
(* steps they can take.                                                    *)

CallerStep ==
    \/ PushBatchFails
    \/ PushBatchSucceeds
    \/ ResolveAfterPush
    \/ LocalEmpty
    \/ LocalSync
    \/ LocalAsync
    \/ LocalSyncReturns
    \/ RemoteEmpty
    \/ RemoteSync
    \/ RemoteAsync
    \/ RemoteSyncReturns
    \/ WaitLocalProposed
    \/ ResolveIntentsReturns
    \/ ProcessWriteIntentErrorReturns

Fairness ==
    /\ WF_vars(CallerStep)
    /\ WF_vars(LocalTaskRuns)
    /\ WF_vars(RemoteTaskRuns)
    /\ WF_vars(AddWriteCmdProposes \/ AddWriteCmdRefuses)
    /\ WF_vars(AddWriteCmdApplies \/ AddWriteCmdFails)
    /\ WF_vars(DBRunReturns)

SpecLive == Init /\ [][Next]_vars /\ Fairness

(* A request that conflicts, is retried and conflicts again *)

RetryCalls ==
    [Lists      |-> {<<Intent(Point(2), TxnMeta("T1", 0), PENDING)>>,
                     <<Intent(Point(2), TxnMeta("T1", 0), PENDING),
                       Intent(Range(3, 5), TxnMeta("T2", 0), PENDING)>>},
     Resolved   |-> {FALSE},
     HeaderTxns |-> {NilTxn},
     Timestamps |-> {1},
     ReadOnly   |-> {TRUE},
     PushTypes  |-> {PUSH_TIMESTAMP},
     Waits      |-> {FALSE},
     Poisons    |-> {TRUE}]

NextRetry ==
    \/ ProcessWriteIntentError(RetryCalls)
    \/ RetryProcessWriteIntentError(RetryCalls)
    \/ PushBatchFails
    \/ PushBatchSucceeds
    \/ ResolveAfterPush
    \/ LocalEmpty
    \/ LocalSync
    \/ LocalAsync
    \/ LocalTaskRuns
    \/ AddWriteCmdProposes
    \/ AddWriteCmdRefuses
    \/ AddWriteCmdApplies
    \/ AddWriteCmdFails
    \/ LocalSyncReturns
    \/ RemoteEmpty
    \/ RemoteSync
    \/ RemoteAsync
    \/ RemoteTaskRuns
    \/ DBRunReturns
    \/ RemoteSyncReturns
    \/ WaitLocalProposed
    \/ ProcessWriteIntentErrorReturns
    \/ Stop

SpecRetry == Init /\ [][NextRetry]_vars

(* The intents left behind by commands, cleaned up by tasks.  The resolver *)
(* is called with wait=true, so it submits nothing to the pool itself.     *)

AsyncLists ==
    {<<>>,
     <<Intent(Point(2), TxnMeta("T1", 0), PENDING)>>,
     <<Intent(Range(3, 5), TxnMeta("T2", 0), COMMITTED)>>,
     <<Intent(Point(3), TxnMeta("T1", 0), COMMITTED),
       Intent(Point(7), TxnMeta("T1", 0), PENDING)>>}

AsyncCalls ==
    [Items |-> SeqsUpTo({[args |-> a, intents |-> l] :
                            a \in {EndTransaction, Scan}, l \in AsyncLists},
                        MaxItems)]

NextAsync ==
    \/ ProcessIntentsAsync(AsyncCalls)
    \/ SubmitItem
    \/ TaskRuns
    \/ PushBatchFails
    \/ PushBatchSucceeds
    \/ ResolveAfterPushAsync
    \/ LocalEmpty
    \/ LocalSync
    \/ AddWriteCmdProposes
    \/ AddWriteCmdRefuses
    \/ AddWriteCmdApplies
    \/ AddWriteCmdFails
    \/ LocalSyncReturns
    \/ RemoteEmpty
    \/ RemoteSync
    \/ DBRunReturns
    \/ RemoteSyncReturns
    \/ WaitLocalProposed
    \/ AsyncResolveFailed
    \/ AsyncPushFailed
    \/ AsyncNoGC
    \/ AsyncGCPanics
    \/ AsyncGC
    \/ GCReturns
    \/ Stop

SpecAsync == Init /\ [][NextAsync]_vars

(* The push and the split of the requests alone, on every kind of intent *)

NextFn ==
    \/ ProcessWriteIntentError(WideCalls)
    \/ PushBatchFails
    \/ PushBatchSucceeds
    \/ ResolveAfterPush
    \/ ResolveIntents(WideCalls)

SpecFn == Init /\ [][NextFn]_vars

----------------------------------------------------------------------------
(* Vocabulary of the properties *)

Returned == pc \in {"resolved", "done"}
ConflictDone == pc = "done" /\ entry = "processWriteIntentError"
PushFailed == pushErr # "nil"
WritingTxn == ~h.Txn.Nil /\ h.Txn.ID # NilID /\ ~readOnly

\* The keys the replica holds, and the spans wholly inside them.
DescKeys == Desc.StartKey .. (Desc.EndKey - 1)
Inside(span) ==
    IF span.EndKey = NoKey
    THEN span.Key \in DescKeys
    ELSE \A k \in span.Key .. (span.EndKey - 1) : k \in DescKeys

Occurrences(seq, x) == Cardinality({i \in DOMAIN seq : seq[i] = x})
Elements(seq) == {seq[i] : i \in DOMAIN seq}
SpansOf(seq) == [i \in DOMAIN seq |-> seq[i].Span]

\* The request resolveIntents owes an intent.
Owed(intent) ==
    [Method    |-> IF intent.Span.EndKey = NoKey THEN "ResolveIntent"
                                                ELSE "ResolveIntentRange",
     Span      |-> intent.Span,
     IntentTxn |-> intent.Txn,
     Status    |-> intent.Status,
     Poison    |-> poison]

Proposed(reqs) == \E i \in DOMAIN raftLog : raftLog[i] = reqs
Signalled == wg = 0 /\ lcmd.st \in {"proposed", "returned"}
Refused == lcmd.st = "returned" /\ lcmd.err /\ ~Proposed(baLocal)

----------------------------------------------------------------------------
(* C1. When maybePushTransactions returned no error, processWriteIntentError *)
(* returns the write-intent error with Resolved=true, whether or not the     *)
(* resolveIntents kick-off returned an error; that error is only logged.     *)
C1_ResolvedWhenPushed ==
    (ConflictDone /\ ~PushFailed) =>
        /\ ret = [Kind |-> "WriteIntentError", Resolved |-> TRUE]
        /\ resErr # "nil" => "asynchronous resolveIntents failed" \in log

C1_Witness ==
    /\ ConflictDone /\ ~PushFailed /\ resErr # "nil"
    /\ ret.Kind = "WriteIntentError" /\ ret.Resolved

(* C2. When the push failed and the caller is a writing transaction (a       *)
(* header transaction with an ID, a request that is not read-only),          *)
(* processWriteIntentError returns the push error, never the write-intent    *)
(* error.                                                                    *)
C2_WriterGetsPushError ==
    (ConflictDone /\ PushFailed /\ WritingTxn) => ret.Kind = "pushErr"

C2_Witness == ConflictDone /\ PushFailed /\ WritingTxn /\ ret.Kind = "pushErr"

(* C3. When the push failed and the caller is read-only or not a             *)
(* transaction, processWriteIntentError returns the write-intent error with  *)
(* Resolved=false, whatever write-intent error it was given.                 *)
C3_BackoffUnresolved ==
    (ConflictDone /\ PushFailed /\ ~WritingTxn) =>
        ret = [Kind |-> "WriteIntentError", Resolved |-> FALSE]

C5_FinalizedKeptOnError ==
    (pc = "pushed" /\ PushFailed) =>
        \A i \in DOMAIN wiErr.Intents :
            wiErr.Intents[i].Status # PENDING =>
                wiErr.Intents[i] \in Elements(resolveIntents)

(* C6. maybePushTransactions puts each input intent in exactly one class     *)
(* (PENDING: to push; otherwise: good to resolve); when the push batch       *)
(* succeeds the resolvable set holds every input intent exactly once: the    *)
(* same spans, the same count.                                               *)
C6_EveryIntentOnce ==
    /\ pc = "push" =>
          \A x \in Elements(wiErr.Intents) :
              /\ Occurrences(pushIntents, x) =
                    (IF x.Status = PENDING THEN Occurrences(wiErr.Intents, x) ELSE 0)
              /\ Occurrences(resolveIntents, x) =
                    (IF x.Status = PENDING THEN 0 ELSE Occurrences(wiErr.Intents, x))
    /\ pc = "push" => Len(pushIntents) + Len(resolveIntents) = Len(wiErr.Intents)
    /\ (pc = "pushed" /\ ~PushFailed) =>
          /\ Len(resolveIntents) = Len(wiErr.Intents)
          /\ \A sp \in Elements(SpansOf(wiErr.Intents)) \cup Elements(SpansOf(resolveIntents)) :
                Occurrences(SpansOf(resolveIntents), sp) =
                    Occurrences(SpansOf(wiErr.Intents), sp)

C6_Witness ==
    /\ pc = "pushed" /\ ~PushFailed
    /\ Len(pushIntents) = 1 /\ Len(wiErr.Intents) = 2
    /\ wiErr.Intents[1].Span = wiErr.Intents[2].Span

(* C7. resolveIntents produces exactly one resolve request per intent (a     *)
(* point request for a single key, a range request for a range); the request *)
(* is in the local batch iff the replica holds the key or the whole range,   *)
(* and in the remote batch otherwise: a range that leaves the replica is     *)
(* remote.                                                                   *)
C7_SplitByContainment ==
    pc \notin {"idle", "push", "pushed"} =>
        /\ Len(baLocal) + Len(reqsRemote) = Len(intents)
        /\ \A i \in DOMAIN intents :
              LET req == Owed(intents[i])
                  same == Occurrences(intents, intents[i])
              IN  /\ Occurrences(baLocal, req) =
                        (IF Inside(intents[i].Span) THEN same ELSE 0)
                  /\ Occurrences(reqsRemote, req) =
                        (IF Inside(intents[i].Span) THEN 0 ELSE same)
        /\ \A req \in Elements(baLocal) \cup Elements(reqsRemote) :
              req.Method = "ResolveIntent" <=> req.Span.EndKey = NoKey

C7_Witness ==
    /\ pc = "local"
    /\ \E i \in DOMAIN reqsRemote :
          /\ reqsRemote[i].Method = "ResolveIntentRange"
          /\ reqsRemote[i].Span.Key \in DescKeys
          /\ ~Inside(reqsRemote[i].Span)
    /\ \E i \in DOMAIN baLocal : baLocal[i].Method = "ResolveIntentRange"

C9_ReturnsAfterBothBatches ==
    (Returned /\ wait) =>
        /\ baLocal # <<>> => lcmd.st = "returned"
        /\ reqsRemote # <<>> => rcmd.st = "returned"
        /\ (lcmd.err \/ rcmd.err) => resErr # "nil"

(* C9 as amended: with wait=true, resolveIntents returns without error only  *)
(* after both batches have completed on the caller (the local one applied,   *)
(* the remote one answered); an error of either batch is returned, and after *)
(* an error of the local batch the remote batch is not sent.                 *)
C9_NilReturnAfterBothBatches ==
    (Returned /\ wait) =>
        /\ resErr = "nil" =>
              /\ baLocal # <<>> =>
                    (lcmd = [st |-> "returned", by |-> "caller", err |-> FALSE]
                        /\ applied = <<baLocal>>)
              /\ reqsRemote # <<>> =>
                    (rcmd = [st |-> "returned", by |-> "caller", err |-> FALSE]
                        /\ dbResolve = <<reqsRemote>>)
        /\ lcmd.err => (resErr = "local" /\ rcmd.st = "none" /\ dbResolve = <<>>)
        /\ rcmd.err => resErr = "remote"

C9_Witness ==
    /\ pc = "done" /\ wait /\ resErr = "nil" /\ ret.Kind = "nil"
    /\ applied = <<baLocal>> /\ baLocal # <<>>
    /\ dbResolve = <<reqsRemote>> /\ reqsRemote # <<>>

(* C10. Every resolve request (point or range, local or remote) of a call of *)
(* resolveIntents carries the poison flag passed to the call; every request  *)
(* made for processWriteIntentError has poison=true.                         *)
C10_PoisonPropagated ==
    LET batches == {baLocal, reqsRemote} \cup Elements(raftLog) \cup Elements(dbResolve)
        reqs == UNION {Elements(b) : b \in batches}
    IN  /\ \A req \in reqs : req.Poison = poison
        /\ entry = "processWriteIntentError" => \A req \in reqs : req.Poison

C10_Witness ==
    /\ ConflictDone
    /\ \E b \in DOMAIN raftLog : \E i \in DOMAIN raftLog[b] : raftLog[b][i].Poison
    /\ \E b \in DOMAIN dbResolve : \E i \in DOMAIN dbResolve[b] :
          dbResolve[b][i].Poison /\ dbResolve[b][i].Method = "ResolveIntentRange"


\* With wait=false the caller runs the local batch only when the pool declined.
DeclinedLocal == ~wait /\ baLocal # <<>> /\ lcmd.by = "caller"

(* C11. When resolveIntents is called with wait=false while the pool is      *)
(* draining, the local and the remote batch, both not empty, are run on the  *)
(* caller before the call returns; neither is dropped and the returned error *)
(* reflects their outcome.                                                   *)
C11_DrainingRunsBothBatches ==
    (Returned /\ DeclinedLocal /\ reqsRemote # <<>>) =>
        /\ lcmd.st = "returned"
        /\ rcmd.st = "returned" /\ rcmd.by = "caller"
        /\ resErr # "nil" <=> (lcmd.err \/ rcmd.err)

(* C11 as amended: on a draining pool the local batch is run on the caller;  *)
(* the remote batch is run on the caller too unless the local batch failed:  *)
(* then the local error is returned and the remote batch is never sent.  The *)
(* returned error is that of the first batch that failed.                    *)
C11_DrainingRunsUntilError ==
    (Returned /\ DeclinedLocal /\ reqsRemote # <<>>) =>
        /\ draining
        /\ lcmd.st = "returned"
        /\ lcmd.err => (resErr = "local" /\ rcmd.st = "none" /\ dbResolve = <<>>)
        /\ ~lcmd.err =>
              /\ rcmd.st = "returned" /\ rcmd.by = "caller"
              /\ dbResolve = <<reqsRemote>>
              /\ Proposed(baLocal)
              /\ resErr = (IF rcmd.err THEN "remote" ELSE "nil")

C11_Witness ==
    /\ pc = "resolved" /\ DeclinedLocal /\ reqsRemote # <<>>
    /\ ~lcmd.err /\ rcmd = [st |-> "returned", by |-> "caller", err |-> TRUE]
    /\ resErr = "remote"

PendingIn(list) == {k \in DOMAIN list : list[k].Status = PENDING}
NthPending(list, n) ==
    list[CHOOSE k \in PendingIn(list) :
            Cardinality({j \in PendingIn(list) : j <= k}) = n]
FinalizedIn(list) == DOMAIN list \ PendingIn(list)

\* The conflict's push batch has succeeded and its result is in hand.
PushSucceeded ==
    entry = "processWriteIntentError" /\ pc \in {"pushed", "local"} /\ pushErr = "nil"

\* The resolve request for a span with the pushee a push response reported.
CarriesResponse(req, span, resp) ==
    req.Span = span /\ req.IntentTxn = resp.TxnMeta /\ req.Status = resp.Status

(* C17. After a successful push batch the i-th intent that needed a push is  *)
(* returned with the status and the transaction metadata of the i-th push    *)
(* response and with its span unchanged, and the resolve request built from  *)
(* it carries the pushed status and metadata, not the observed ones.         *)
C17_PushedIntentCarriesResponse ==
    PushSucceeded =>
        LET in == wiErr.Intents
            g  == Cardinality(FinalizedIn(in))
            n  == Cardinality(PendingIn(in))
        IN  /\ Len(brPush) = n
            /\ Len(resolveIntents) = g + n
            /\ \A i \in 1..n :
                  /\ resolveIntents[g + i].Span = NthPending(in, i).Span
                  /\ resolveIntents[g + i].Txn = brPush[i].TxnMeta
                  /\ resolveIntents[g + i].Status = brPush[i].Status
                  /\ pc = "local" =>
                        \E r \in Elements(baLocal \o reqsRemote) :
                            CarriesResponse(r, NthPending(in, i).Span, brPush[i])
            /\ pc = "local" =>
                  \A r \in Elements(baLocal \o reqsRemote) :
                      \/ \E k \in FinalizedIn(in) :
                            /\ r.Span = in[k].Span
                            /\ r.IntentTxn = in[k].Txn
                            /\ r.Status = in[k].Status
                      \/ \E i \in 1..n :
                            CarriesResponse(r, NthPending(in, i).Span, brPush[i])

\* A pushee left PENDING with its timestamp advanced is resolved as such, and
\* another conflict's pushee found COMMITTED is resolved as COMMITTED.
C17_Witness ==
    /\ PushSucceeded /\ pc = "local"
    /\ \E i \in DOMAIN brPush :
          /\ brPush[i].Status = PENDING
          /\ brPush[i].TxnMeta.Timestamp > pushIntents[i].Txn.Timestamp
          /\ \E r \in Elements(baLocal) :
                /\ CarriesResponse(r, pushIntents[i].Span, brPush[i])
                /\ r.IntentTxn # pushIntents[i].Txn
    /\ \E i \in DOMAIN brPush :
          /\ brPush[i].Status = COMMITTED
          /\ \E r \in Elements(baLocal \o reqsRemote) :
                CarriesResponse(r, pushIntents[i].Span, brPush[i])

(* C18. Each call of maybePushTransactions dispatches one push batch with    *)
(* one push request per PENDING input intent, in input order and without     *)
(* collapsing by pushee; finalized intents get no request; all requests of   *)
(* the call share one Now and have PushTo equal to the header timestamp.     *)
C18_OnePushPerPendingIntent ==
    /\ Len(pushLog) = calls
    /\ (entry = "processWriteIntentError" /\ pc = "push") =>
          LET in == wiErr.Intents
              n  == Cardinality(PendingIn(in))
          IN  /\ Len(dbPush) = n
              /\ \A i \in 1..n :
                    /\ dbPush[i].PusheeTxn = NthPending(in, i).Txn
                    /\ dbPush[i].PushTo = h.Timestamp
                    /\ dbPush[i].Now = clock
              /\ \A i, j \in 1..n : dbPush[i].Now = dbPush[j].Now

\* Two PENDING intents of one transaction give two requests for that pushee.
C18_Witness ==
    /\ entry = "processWriteIntentError" /\ pc = "push"
    /\ Len(wiErr.Intents) = 2 /\ Len(dbPush) = 2
    /\ dbPush[1].PusheeTxn = dbPush[2].PusheeTxn
    /\ wiErr.Intents[1].Span # wiErr.Intents[2].Span


(* C13. Successive push attempts on one pushee, in successive calls of       *)
(* maybePushTransactions and also when a request is retried with the header  *)
(* timestamp it had, carry strictly increasing Now values: Now is the store  *)
(* clock read in the call, never the header's timestamp.                     *)
C13_NowStrictlyIncreases ==
    /\ \A i, j \in DOMAIN pushLog :
          i < j => \A a \in pushLog[i], b \in pushLog[j] :
                      a.ID = b.ID => a.Now < b.Now
    /\ pc = "push" => \A i \in DOMAIN dbPush :
                          dbPush[i].Now = clock /\ dbPush[i].PushTo = h.Timestamp

\* The retried request pushes a pushee it pushed before, with the same PushTo.
C13_Witness ==
    /\ pc = "push" /\ calls = 2 /\ Len(pushLog) = 2
    /\ \E a \in pushLog[1], b \in pushLog[2] : a.ID = b.ID /\ a.Now < b.Now
    /\ dbPush # <<>> /\ dbPush[1].PushTo = 1


\* The items of processIntentsAsync whose task was started, and those whose
\* task has ended.
Started == {i \in DOMAIN track : track[i].st \in {"running", "done", "panic"}}
Ended == {i \in DOMAIN track : track[i].st \in {"done", "panic"}}
Declined == {i \in DOMAIN track : track[i].st = "declined"}
Handled(i) == track[i].pushCalls = 1 /\ track[i].resolveCalls = 1

(* C12. When the task pool is draining no work is dropped: an item of        *)
(* processIntentsAsync whose task RunAsyncTask declined is pushed and        *)
(* resolved on the caller before the loop goes on.                           *)
C12_DeclinedItemHandled ==
    \A i \in Declined : i < next => Handled(i)

(* C19. The task never reads the first intent of an empty list: the GC step  *)
(* of an EndTransaction item is reached only if the item has an intent.      *)
C19_GCReadsAnIntent ==
    /\ pc # "panic"
    /\ \A i \in DOMAIN track :
          (track[i].gc > 0 \/ track[i].st = "panic") => items[i].intents # <<>>

(* C15. A GC request for the transaction record, over the replica's span, is *)
(* issued for an item if and only if the item's request is an EndTransaction *)
(* and the push and the resolve of the item both succeeded; it is issued     *)
(* after the resolve, never for another request and never after a failure.   *)
C15_GCIffEndTransactionResolved ==
    /\ Len(gcReqs) = Cardinality({i \in DOMAIN track : track[i].gc = 1})
    /\ \A i \in DOMAIN track : track[i].gc \in {0, 1}
    /\ \A i \in Ended :
          track[i].gc = 1 <=>
              /\ track[i].args = EndTransaction
              /\ Handled(i)
              /\ ~track[i].pushFailed
              /\ ~track[i].resolveFailed
    /\ \A k \in DOMAIN gcReqs :
          /\ gcReqs[k].Span = [Key |-> Desc.StartKey, EndKey |-> Desc.EndKey]
          /\ \E i \in DOMAIN track :
                /\ track[i].gc = 1
                /\ items[i].intents # <<>>
                /\ gcReqs[k].Keys = <<TransactionKey(items[i].intents[1].Txn.Key,
                                                      items[i].intents[1].Txn.ID)>>

\* What the pusher returns for an input: nothing after an error, else as many
\* intents as it was given, the finalized ones first.
ReturnedByPusher(in, failed, out) ==
    IF failed
    THEN out = <<>>
    ELSE /\ Len(out) = Len(in)
         /\ \A k \in 1..Cardinality(FinalizedIn(in)) : out[k].Status # PENDING
         /\ \A k \in FinalizedIn(in) : \E j \in DOMAIN out : out[j] = in[k]

\* The running task is past its call of the resolver.
PastResolve(i) ==
    \/ track[i].st \in {"done", "panic"}
    \/ track[i].st = "running" /\ pc \notin {"push", "pushed"}

CounterSteps ==
    /\ (pc = "local" /\ pc' # "local") =>
          wg' = wg + (IF baLocal # <<>> THEN 1 ELSE 0)
    /\ (pc # "local" /\ pc' # "local") => wg' <= wg
    /\ (pc = "localSync" /\ pc' # "localSync" /\ lcmd.err) =>
          pc' = "resolved" /\ resErr' = "local"

(* C20. With a fair pool and a write path which signals the handle once per  *)
(* submission, every call of resolveIntents returns.  The counter of the     *)
(* handle is raised once, and only when the local batch is not empty; it is  *)
(* never negative; the final wait passes at once when no intent is local;    *)
(* after a failure of the synchronous local batch the call returns without   *)
(* waiting.                                                                  *)
C20_ResolveIntentsReturns ==
    /\ (pc = "local") ~> Returned
    /\ [](wg \in {0, 1})
    /\ []((pc = "wait" /\ baLocal = <<>>) => wg = 0)
    /\ []((lcmd.st = "none" /\ pc # "local") => wg = 0)
    /\ [][CounterSteps]_vars

\* The call has returned after waiting for the signal of the task which the
\* pool ran for the local batch.
C20_Witness ==
    /\ pc = "resolved" /\ ~wait /\ resErr = "nil"
    /\ baLocal # <<>> /\ lcmd.by = "task" /\ lcmd.st \in {"proposed", "returned"}
    /\ wg = 0

====
